---------------------------- MODULE Spec2Model ----------------------------
(***************************************************************************)
(* A model of src/check/tree.rs: the host trie (HostNode) layered over the *)
(* compressed path trie (PathNode / PathEdge) and the flag encoding        *)
(* (ReqType::flag, PathNodeFlags).                                         *)
(*                                                                         *)
(* Strings are sequences of bytes (Nat).  A PathNodeFlags value, a u32 bit *)
(* set, is the set of the positions of its one-bits, so that `|` is \cup   *)
(* and `contains` is \subseteq.  A PathNode is the record                  *)
(*   [flags |-> set of bit positions, children |-> sequence of PathEdge],  *)
(* a PathEdge is [prefix |-> string, node |-> PathNode], and a HostNode is *)
(*   [terminal |-> PathNode, wildcard |-> PathNode,                        *)
(*    children |-> function from labels to HostNode].                      *)
(***************************************************************************)
EXTENDS Naturals, Integers, Sequences, FiniteSets, TLC

(***************************************************************************)
(* Bytes.                                                                  *)
(***************************************************************************)
Slash == 47
Dot == 46
Star == 42

(***************************************************************************)
(* Bounds of the model.                                                    *)
(***************************************************************************)
\* longest path body (the part after the optional leading '/') of the path trie runs
MaxLen == 3
\* number of PathNode.insert calls of a path trie run
MaxInserts == 3
\* number of HostNode.insert calls of a host trie run
MaxHostInserts == 2
\* number of HostNode.insert calls of a run that records its queries
MaxQueryInserts == 2

(***************************************************************************)
(* State.                                                                  *)
(***************************************************************************)
VARIABLES
    phase,    \* "build" while inserts are made, "query" once arrange has run
    bias,     \* rounding of the midpoint of search::find, fixed per run: 0 or 1
    ptree,    \* a path trie built on its own: a PathNode
    pins,     \* history: the <<ReqType, normalised path>> inserted into ptree
    pcount,   \* history: number of PathNode.insert calls on ptree
    pres,     \* the last PathNode.check call: "none", "granted" or "denied"
    htree,    \* a host trie: a HostNode
    hins,     \* history: the <<ReqType, host, path>> inserted into htree
    shadow,   \* history: per inserted host string, the path trie of its entries alone
    hcount,   \* history: number of HostNode.insert calls on htree
    hres,     \* the last HostNode.check call: "none", "granted" or "denied"
    last      \* the last recorded query: <<>> or [req, host, path, res]

pvars == <<ptree, pins, pcount, pres>>
hvars == <<htree, hins, shadow, hcount, hres, last>>
vars == <<phase, bias, pvars, hvars>>

(***************************************************************************)
(* String helpers (str::len, slicing, str::starts_with, Ord for str).      *)
(***************************************************************************)
\* &s[i..] for a 0-based byte offset i
From(s, i) == SubSeq(s, i + 1, Len(s))

\* &s[0..i]
Upto(s, i) == SubSeq(s, 1, i)

\* s.starts_with(p)
StartsWith(s, p) == Len(p) <= Len(s) /\ SubSeq(s, 1, Len(p)) = p

\* length of the longest common prefix of two strings
RECURSIVE CommonLen(_, _)
CommonLen(a, b) ==
    IF a = <<>> \/ b = <<>> \/ Head(a) # Head(b) THEN 0
    ELSE 1 + CommonLen(Tail(a), Tail(b))

\* a.cmp(b) on byte strings: lexicographic, a proper prefix is Less
StrCmp(a, b) ==
    LET n == CommonLen(a, b) IN
    IF n = Len(a) /\ n = Len(b) THEN "Equal"
    ELSE IF n = Len(a) THEN "Less"
    ELSE IF n = Len(b) THEN "Greater"
    ELSE IF a[n + 1] < b[n + 1] THEN "Less" ELSE "Greater"

(***************************************************************************)
(* Flag encoding.                                                          *)
(***************************************************************************)
ReqScheme == {"Ftp", "Gopher", "Http", "Https", "Ws", "Wss", "Custom"}

ReqResource ==
    {"ChildSrc", "ConnectSrc", "DefaultSrc", "FontSrc", "FrameSrc", "ImgSrc",
     "ManifestSrc", "MediaSrc", "ObjectSrc", "ScriptSrc", "StyleSrc",
     "WorkerSrc", "BaseUri", "FormAction", "FrameAncestors"}

\* ReqType(ReqScheme, ReqResource)
ReqType == ReqScheme \X ReqResource

\* position of the one-bit of each SCHEME_* constant of PathNodeFlags
SchemeBit(s) ==
    CASE s = "Ftp" -> 0
      [] s = "Gopher" -> 1
      [] s = "Http" -> 2
      [] s = "Https" -> 3
      [] s = "Ws" -> 4
      [] s = "Wss" -> 5
      [] s = "Custom" -> 6

\* position of the one-bit of each RESOURCE_* constant of PathNodeFlags
ResourceBit(r) ==
    CASE r = "ChildSrc" -> 7
      [] r = "ConnectSrc" -> 8
      [] r = "DefaultSrc" -> 9
      [] r = "FontSrc" -> 10
      [] r = "FrameSrc" -> 11
      [] r = "ImgSrc" -> 12
      [] r = "ManifestSrc" -> 13
      [] r = "MediaSrc" -> 14
      [] r = "ObjectSrc" -> 15
      [] r = "ScriptSrc" -> 16
      [] r = "StyleSrc" -> 17
      [] r = "WorkerSrc" -> 18
      [] r = "BaseUri" -> 19
      [] r = "FormAction" -> 20
      [] r = "FrameAncestors" -> 21

\* ReqType::flag returning the scheme bit alone
Flag_scheme_only(req) == {SchemeBit(req[1])}

\* ReqType::flag: scheme | resource
Flag(req) == {SchemeBit(req[1])} \cup {ResourceBit(req[2])}

\* PathNodeFlags::empty()
EmptyFlags == {}

\* PathNodeFlags::contains
Contains(flags, probe) == probe \subseteq flags

(***************************************************************************)
(* Path trie.                                                              *)
(***************************************************************************)
\* PathNode::new
PathNode_new == [flags |-> EmptyFlags, children |-> <<>>]

\* a node with the given flags and children
MkNode(f, ch) == [flags |-> f, children |-> ch]

\* a PathEdge
MkEdge(p, n) == [prefix |-> p, node |-> n]

\* SplitEdge with the new flag put on the internal node as well
SplitEdge_flagged(child, flag, path, i) ==
    MkEdge(Upto(child.prefix, i),
           MkNode(flag,
                  << MkEdge(From(child.prefix, i), child.node),
                     MkEdge(From(path, i), MkNode(flag, <<>>)) >>))

\* the split of the two `for i in 1 .. n` loops of insert_: the edge that
\* replaces `child`, an internal node under prefix `sub` = the first i bytes,
\* holding the old edge with its prefix cut and a new edge for &path[i..]
SplitEdge(child, flag, path, i) ==
    MkEdge(Upto(child.prefix, i),
           MkNode(EmptyFlags,
                  << MkEdge(From(child.prefix, i), child.node),
                     MkEdge(From(path, i), MkNode(flag, <<>>)) >>))

\* DemoteEdge with the rest of the old label cut one byte too far
DemoteEdge_off_by_one(child, flag, path) ==
    MkEdge(path,
           MkNode(flag,
                  << MkEdge(From(child.prefix, Len(path) + 1),
                            MkNode(child.node.flags, child.node.children)) >>))

\* the split taken when child.prefix.starts_with(path) and path is shorter
DemoteEdge(child, flag, path) ==
    MkEdge(path,
           MkNode(flag,
                  << MkEdge(From(child.prefix, Len(path)),
                            MkNode(child.node.flags, child.node.children)) >>))

\* the first i of `for i in 1 .. n` with big.starts_with(&small[0..i]); 0 if none
FirstSub(big, small, n) ==
    LET I == {i \in 1..(n - 1) : StartsWith(big, Upto(small, i))} IN
    IF I = {} THEN 0 ELSE CHOOSE i \in I : \A j \in I : i <= j

\* PathNode::insert_, with the position k of the `for child in &mut
\* self.children` loop
RECURSIVE PathNode_insert_at(_, _, _, _)
PathNode_insert_at(self, flag, path, k) ==
    IF path = <<>> THEN [self EXCEPT !.flags = self.flags \cup flag]
    ELSE IF k > Len(self.children)
    THEN [self EXCEPT !.children = Append(self.children, MkEdge(path, MkNode(flag, <<>>)))]
    ELSE
      LET child == self.children[k] IN
      IF Len(path) >= Len(child.prefix)
      THEN IF StartsWith(path, child.prefix)
           THEN [self EXCEPT !.children[k].node =
                    PathNode_insert_at(child.node, flag, From(path, Len(child.prefix)), 1)]
           ELSE LET i == FirstSub(path, child.prefix, Len(child.prefix)) IN
                IF i > 0
                THEN [self EXCEPT !.children[k] = SplitEdge(child, flag, path, i)]
                ELSE PathNode_insert_at(self, flag, path, k + 1)
      ELSE IF StartsWith(child.prefix, path)
           THEN [self EXCEPT !.children[k] = DemoteEdge(child, flag, path)]
           ELSE LET i == FirstSub(child.prefix, path, Len(path)) IN
                IF i > 0
                THEN [self EXCEPT !.children[k] = SplitEdge(child, flag, path, i)]
                ELSE PathNode_insert_at(self, flag, path, k + 1)

\* PathNode::insert_
PathNode_insert_(self, req, path) == PathNode_insert_at(self, Flag(req), path, 1)

\* the normalisation of insert and check: one optional leading '/' is cut
StripSlash(path) ==
    IF Len(path) > 0 /\ path[1] = Slash THEN From(path, 1) ELSE path

\* PathNode::insert without the normalisation
PathNode_insert_nostrip(self, req, path) == PathNode_insert_(self, req, path)

\* PathNode::insert
PathNode_insert(self, req, path) == PathNode_insert_(self, req, StripSlash(path))

\* Vec::sort_by_key(|child| child.prefix): a stable insertion sort
RECURSIVE SortInsert(_, _)
SortInsert(sorted, e) ==
    IF sorted = <<>> THEN <<e>>
    ELSE IF StrCmp(sorted[Len(sorted)].prefix, e.prefix) = "Greater"
         THEN Append(SortInsert(SubSeq(sorted, 1, Len(sorted) - 1), e), sorted[Len(sorted)])
         ELSE Append(sorted, e)

RECURSIVE SortByKey(_)
SortByKey(edges) ==
    IF edges = <<>> THEN <<>>
    ELSE SortInsert(SortByKey(SubSeq(edges, 1, Len(edges) - 1)), edges[Len(edges)])

\* search::arrange: leaves a sorted sequence as it is
search_arrange(edges) == edges

\* PathNode::arrange
RECURSIVE PathNode_arrange(_)
PathNode_arrange(self) ==
    LET sorted == search_arrange(SortByKey(self.children)) IN
    [self EXCEPT !.children =
        [k \in 1..Len(sorted) |->
            MkEdge(sorted[k].prefix, PathNode_arrange(sorted[k].node))]]

\* PathNode::check_scheme
check_scheme(self, req) == Contains(self.flags, Flag(req))

\* the comparator check_ hands to search::find
EdgeCmp(child, path) ==
    IF StartsWith(path, child.prefix) THEN "Equal" ELSE StrCmp(child.prefix, path)

\* search::find: binary search of the sorted edges edges[lo..hi] for one the
\* comparator calls Equal; its index, or 0 for None.  Which of several Equal
\* edges it meets first depends on how the midpoint is rounded (bias).
RECURSIVE search_find(_, _, _, _)
search_find(edges, path, lo, hi) ==
    IF lo > hi THEN 0
    ELSE LET mid == lo + ((hi - lo + bias) \div 2)
             c == EdgeCmp(edges[mid], path) IN
         IF c = "Equal" THEN mid
         ELSE IF c = "Less" THEN search_find(edges, path, mid + 1, hi)
         ELSE search_find(edges, path, lo, mid - 1)

\* PathNode::check_
RECURSIVE PathNode_check_(_, _, _)
PathNode_check_(self, req, path) ==
    \/ check_scheme(self, req)
    \/ LET k == search_find(self.children, path, 1, Len(self.children)) IN
       /\ k > 0
       /\ PathNode_check_(self.children[k].node, req,
                          From(path, Len(self.children[k].prefix)))

\* PathNode::check
PathNode_check(self, req, path) == PathNode_check_(self, req, StripSlash(path))

(***************************************************************************)
(* Host trie.                                                              *)
(***************************************************************************)
\* host.split('.'): the labels between the dots, at least one (maybe empty)
RECURSIVE SplitDots(_, _, _)
SplitDots(host, k, cur) ==
    IF k > Len(host) THEN <<cur>>
    ELSE IF host[k] = Dot THEN <<cur>> \o SplitDots(host, k + 1, <<>>)
    ELSE SplitDots(host, k + 1, Append(cur, host[k]))

\* Iterator::rev
Rev(seq) == [k \in 1..Len(seq) |-> seq[Len(seq) + 1 - k]]

\* host.split('.').rev(): the labels of a host, top-level domain first
Parts(host) == Rev(SplitDots(host, 1, <<>>))

\* HashMap::new
NoChildren == [l \in {} |-> PathNode_new]

\* HostNode::new
HostNode_new ==
    [terminal |-> PathNode_new, wildcard |-> PathNode_new, children |-> NoChildren]

\* HashMap::entry(part).or_insert_with(HostNode::new): the map with the entry
Entry(children, part) ==
    IF part \in DOMAIN children THEN children
    ELSE [l \in DOMAIN children \cup {part} |->
            IF l = part THEN HostNode_new ELSE children[l]]

\* HostNode::insert_
RECURSIVE HostNode_insert_(_, _, _, _)
HostNode_insert_(self, req, parts, path) ==
    IF parts # <<>>
    THEN LET part == Head(parts) IN
         IF part = <<Star>>
         THEN [self EXCEPT !.wildcard = PathNode_insert(self.wildcard, req, path)]
         ELSE LET ch == Entry(self.children, part) IN
              [self EXCEPT !.children =
                  [ch EXCEPT ![part] = HostNode_insert_(ch[part], req, Tail(parts), path)]]
    ELSE [self EXCEPT !.terminal = PathNode_insert(self.terminal, req, path)]

\* HostNode::insert
HostNode_insert(self, req, host, path) == HostNode_insert_(self, req, Parts(host), path)

\* HostNode::arrange
RECURSIVE HostNode_arrange(_)
HostNode_arrange(self) ==
    [terminal |-> PathNode_arrange(self.terminal),
     wildcard |-> PathNode_arrange(self.wildcard),
     children |-> [l \in DOMAIN self.children |-> HostNode_arrange(self.children[l])]]

\* HostNode::check_ that asks the wildcard trie at the last label too
RECURSIVE HostNode_check_wild_at_end(_, _, _, _)
HostNode_check_wild_at_end(self, req, parts, path) ==
    IF parts # <<>>
    THEN \/ /\ Head(parts) \in DOMAIN self.children
            /\ HostNode_check_wild_at_end(self.children[Head(parts)], req, Tail(parts), path)
         \/ PathNode_check(self.wildcard, req, path)
    ELSE PathNode_check(self.terminal, req, path) \/ PathNode_check(self.wildcard, req, path)

\* HostNode::check_ that asks the wildcard trie only where the label has no child
RECURSIVE HostNode_check_no_fallback(_, _, _, _)
HostNode_check_no_fallback(self, req, parts, path) ==
    IF parts # <<>>
    THEN IF Head(parts) \in DOMAIN self.children
         THEN HostNode_check_no_fallback(self.children[Head(parts)], req, Tail(parts), path)
         ELSE PathNode_check(self.wildcard, req, path)
    ELSE PathNode_check(self.terminal, req, path)

\* HostNode::check_
RECURSIVE HostNode_check_(_, _, _, _)
HostNode_check_(self, req, parts, path) ==
    IF parts # <<>>
    THEN \/ /\ Head(parts) \in DOMAIN self.children
            /\ HostNode_check_(self.children[Head(parts)], req, Tail(parts), path)
         \/ PathNode_check(self.wildcard, req, path)
    ELSE PathNode_check(self.terminal, req, path)

\* HostNode::check
HostNode_check(self, req, host, path) == HostNode_check_(self, req, Parts(host), path)

(***************************************************************************)
(* Inputs of the runs.                                                     *)
(***************************************************************************)
\* bytes of path bodies: 'a', 'b'
Alphabet == {97, 98}

RECURSIVE StringsUpTo(_)
StringsUpTo(n) ==
    IF n = 0 THEN {<<>>}
    ELSE LET S == StringsUpTo(n - 1) IN
         S \cup {Append(s, c) : s \in S, c \in Alphabet}

\* path bodies: strings of 'a' that may end in one 'b'; and the paths handed
\* to insert and check: a body with or without a leading '/'
Bodies == {s \in StringsUpTo(MaxLen) : \A i \in 1..(Len(s) - 1) : s[i] = 97}
Paths == Bodies \cup {<<Slash>> \o p : p \in Bodies}

\* the (scheme, category) pairs of the trie runs
Reqs == {"Http", "Https"} \X {"ScriptSrc", "StyleSrc"}
InsReqs == {<<"Http", "ScriptSrc">>, <<"Https", "StyleSrc">>}

\* hosts: "s", "*.s", "c.s", "*" are inserted; "", "s", "c.s", "d.s",
\* "d.c.s" are asked for
InsHosts == {<<115>>, <<Star, Dot, 115>>, <<99, Dot, 115>>, <<Star>>}
QueryHosts ==
    {<<>>, <<115>>, <<99, Dot, 115>>, <<100, Dot, 115>>, <<100, Dot, 99, Dot, 115>>}

\* paths of the host trie runs: "/aa", "aaa", "aab" are inserted, and "a" is
\* asked for as well
HostPaths == {<<Slash, 97, 97>>, <<97, 97, 97>>, <<97, 97, 98>>}
HostQueryPaths == HostPaths \cup {<<97>>}

\* inputs of the runs that record their queries
RecHosts == {<<115>>, <<Star, Dot, 115>>}
RecQueryHosts == {<<115>>, <<99, Dot, 115>>}
RecPaths == {<<97>>, <<Slash, 97, 98>>}

\* inputs of the runs about the flag encoding
FlagPaths == {<<>>, <<Slash, 97>>}

(***************************************************************************)
(* Operations: PathNode::new / HostNode::new, insert*, arrange, check*.    *)
(***************************************************************************)
Init ==
    /\ phase = "build"
    /\ bias \in {0, 1}
    /\ ptree = PathNode_new
    /\ pins = {}
    /\ pcount = 0
    /\ pres = "none"
    /\ htree = HostNode_new
    /\ hins = {}
    /\ shadow = [h \in {} |-> PathNode_new]
    /\ hcount = 0
    /\ hres = "none"
    /\ last = <<>>

\* a check result as the caller sees it
Verdict(granted) == IF granted THEN "granted" ELSE "denied"

\* tree.insert(req, path) on a path trie, before arrange
PathInsert(req, path) ==
    /\ phase = "build"
    /\ pcount < MaxInserts
    /\ ptree' = PathNode_insert(ptree, req, path)
    /\ pins' = pins \cup {<<req, StripSlash(path)>>}
    /\ pcount' = pcount + 1
    /\ UNCHANGED <<phase, bias, pres, hvars>>

\* tree.arrange() on a path trie
PathArrange ==
    /\ phase = "build"
    /\ ptree' = PathNode_arrange(ptree)
    /\ phase' = "query"
    /\ UNCHANGED <<bias, pins, pcount, pres, hvars>>

\* tree.check(req, path) on an arranged path trie: takes &self
PathCheck(req, path) ==
    /\ phase = "query"
    /\ pres' = Verdict(PathNode_check(ptree, req, path))
    /\ UNCHANGED <<phase, bias, ptree, pins, pcount, hvars>>

\* the path trie of a host's entries alone, after one more entry
ShadowInsert(sh, req, host, path) ==
    LET old == IF host \in DOMAIN sh THEN sh[host] ELSE PathNode_new IN
    [h \in DOMAIN sh \cup {host} |->
        IF h = host THEN PathNode_insert(old, req, path) ELSE sh[h]]

\* tree.insert(req, host, path) on a host trie, before arrange
HostInsert(req, host, path, max) ==
    /\ phase = "build"
    /\ hcount < max
    /\ htree' = HostNode_insert(htree, req, host, path)
    /\ hins' = hins \cup {<<req, host, path>>}
    /\ shadow' = ShadowInsert(shadow, req, host, path)
    /\ hcount' = hcount + 1
    /\ UNCHANGED <<phase, bias, hres, last, pvars>>

\* tree.arrange() on a host trie
HostArrange ==
    /\ phase = "build"
    /\ htree' = HostNode_arrange(htree)
    /\ phase' = "query"
    /\ UNCHANGED <<bias, hins, shadow, hcount, hres, last, pvars>>

\* tree.check(req, host, path) on an arranged host trie: takes &self
HostCheck(req, host, path) ==
    /\ phase = "query"
    /\ hres' = Verdict(HostNode_check(htree, req, host, path))
    /\ UNCHANGED <<phase, bias, htree, hins, shadow, hcount, last, pvars>>

\* the host trie with a child made for every label on the way, as a lookup
\* through HashMap::entry(part).or_insert_with(HostNode::new) would leave it
RECURSIVE HostNode_touch(_, _)
HostNode_touch(self, parts) ==
    IF parts = <<>> THEN self
    ELSE LET ch == Entry(self.children, Head(parts)) IN
         [self EXCEPT !.children =
             [ch EXCEPT ![Head(parts)] = HostNode_touch(ch[Head(parts)], Tail(parts))]]

\* a recorded check that looks the labels up through the entry API
HostQuery_entry(req, host, path) ==
    /\ phase = "query"
    /\ hres' = Verdict(HostNode_check(htree, req, host, path))
    /\ last' = [req |-> req, host |-> host, path |-> path, res |-> HostNode_check(htree, req, host, path)]
    /\ htree' = HostNode_touch(htree, Parts(host))
    /\ UNCHANGED <<phase, bias, hins, shadow, hcount, pvars>>

\* tree.check(req, host, path) with its arguments and result recorded
HostQuery(req, host, path) ==
    /\ phase = "query"
    /\ hres' = Verdict(HostNode_check(htree, req, host, path))
    /\ last' = [req |-> req, host |-> host, path |-> path, res |-> HostNode_check(htree, req, host, path)]
    /\ UNCHANGED <<phase, bias, htree, hins, shadow, hcount, pvars>>

(***************************************************************************)
(* Runs of a path trie on its own.                                         *)
(***************************************************************************)
NextPath ==
    \/ \E req \in InsReqs, path \in Paths : PathInsert(req, path)
    \/ PathArrange
    \/ \E req \in Reqs, path \in Paths : PathCheck(req, path)

SpecPath == Init /\ [][NextPath]_vars

(***************************************************************************)
(* Runs of a host trie.                                                    *)
(***************************************************************************)
NextHost ==
    \/ \E req \in InsReqs, host \in InsHosts, path \in HostPaths :
          HostInsert(req, host, path, MaxHostInserts)
    \/ HostArrange
    \/ \E req \in Reqs, host \in QueryHosts, path \in HostQueryPaths :
          HostCheck(req, host, path)

SpecHost == Init /\ [][NextHost]_vars

(***************************************************************************)
(* Runs of a host trie that record each query.                             *)
(***************************************************************************)
NextQuery ==
    \/ \E req \in InsReqs, host \in RecHosts, path \in RecPaths :
          HostInsert(req, host, path, MaxQueryInserts)
    \/ HostArrange
    \/ \E req \in Reqs, host \in RecQueryHosts, path \in RecPaths :
          HostQuery(req, host, path)

SpecQuery == Init /\ [][NextQuery]_vars

(***************************************************************************)
(* Runs of a path trie holding one pair, over all of ReqType.              *)
(***************************************************************************)
NextFlag ==
    \/ \E req \in ReqType, path \in FlagPaths : pcount = 0 /\ PathInsert(req, path)
    \/ PathArrange
    \/ \E req \in ReqType, path \in FlagPaths : PathCheck(req, path)

SpecFlag == Init /\ [][NextFlag]_vars

(***************************************************************************)
(* Vocabulary of the properties.                                           *)
(***************************************************************************)
\* every PathNode of a path trie
RECURSIVE NodesOf(_)
NodesOf(node) ==
    {node} \cup UNION {NodesOf(node.children[k].node) : k \in DOMAIN node.children}

\* the bits of all pairs inserted into ptree at exactly the normalised path p
BitsAt(p) == UNION {Flag(e[1]) : e \in {x \in pins : x[2] = p}}

\* the prefixes of a string
PrefixesOf(q) == {Upto(q, n) : n \in 0..Len(q)}

(***************************************************************************)
(* C1. Completeness of the path trie: once arranged, check grants a pair   *)
(* at every query path that has, after normalisation, an inserted path of  *)
(* that pair as a prefix.                                                  *)
(***************************************************************************)
C1_Completeness ==
    phase = "query" =>
        \A e \in pins : \A q \in Paths :
            StartsWith(StripSlash(q), e[2]) => PathNode_check(ptree, e[1], q)

(***************************************************************************)
(* C2. Soundness of the path trie: once arranged, check grants a pair at a *)
(* query path only if, at some one prefix of the normalised query, both    *)
(* the scheme bit and the category bit of the pair were inserted.          *)
(***************************************************************************)
C2_Soundness ==
    phase = "query" =>
        \A req \in Reqs : \A q \in Paths :
            PathNode_check(ptree, req, q) =>
                \E p \in PrefixesOf(StripSlash(q)) : Flag(req) \subseteq BitsAt(p)

\* a pair inserted at a path of two bytes or more is granted there and denied
\* at the shorter paths, and an arranged empty trie has denied a query
C2_Witness ==
    /\ phase = "query"
    /\ pres = "granted"
    /\ \E e \in pins :
          /\ Len(e[2]) >= 2
          /\ PathNode_check(ptree, e[1], e[2])
          /\ \A n \in 0..(Len(e[2]) - 1) : ~PathNode_check(ptree, e[1], Upto(e[2], n))

(***************************************************************************)
(* C3. Unique matching sibling: in no node of the path trie is the label   *)
(* of one child edge a prefix of the label of another child edge.          *)
(***************************************************************************)
C3_UniqueSibling ==
    \A node \in NodesOf(ptree) : \A i, j \in DOMAIN node.children :
        i # j => ~StartsWith(node.children[i].prefix, node.children[j].prefix)

(***************************************************************************)
(* C4. Sibling prefix-disjointness: in no node of the path trie do two     *)
(* distinct child edges begin with the same byte.                          *)
(***************************************************************************)
C4_DisjointSiblings ==
    \A node \in NodesOf(ptree) : \A i, j \in DOMAIN node.children :
        i # j => CommonLen(node.children[i].prefix, node.children[j].prefix) = 0

(***************************************************************************)
(* C5. Root and empty path are one: inserting "/" + P builds the trie that *)
(* inserting P builds, checking "/" + P answers as checking P does, and a  *)
(* pair inserted at "/" or "" is granted at every query path.              *)
(***************************************************************************)
C5_RootEquivalence ==
    /\ phase = "build" =>
          \A req \in InsReqs : \A p \in Bodies :
              PathNode_insert(ptree, req, <<Slash>> \o p) = PathNode_insert(ptree, req, p)
    /\ phase = "query" =>
          /\ \A req \in Reqs : \A p \in Bodies :
                PathNode_check(ptree, req, <<Slash>> \o p) = PathNode_check(ptree, req, p)
          /\ \A e \in pins : \A q \in Paths :
                e[2] = <<>> => PathNode_check(ptree, e[1], q)

\* a pair was inserted at the root among other inserts, and a check granted
C5_Witness ==
    /\ phase = "query"
    /\ pcount >= 2
    /\ pres = "granted"
    /\ \E e \in pins : e[2] = <<>>
    /\ \E e \in pins : e[2] # <<>>

(***************************************************************************)
(* Vocabulary of the host properties.                                      *)
(***************************************************************************)
\* the hosts without a wildcard label that are inserted
PlainHosts == {h \in InsHosts : Star \notin {h[k] : k \in DOMAIN h}}

\* "*." + S
WildOf(S) == <<Star, Dot>> \o S

\* the hosts asked for that put one or more labels in front of S
SubOf(S) ==
    {h \in QueryHosts : Len(h) > Len(S) + 1 /\ From(h, Len(h) - Len(S) - 1) = <<Dot>> \o S}

\* the hosts that were inserted
HostsOf(entries) == {e[2] : e \in entries}

\* does the arranged path trie of the entries of host string h alone grant?
ShadowCheck(h, req, path) ==
    /\ h \in DOMAIN shadow
    /\ PathNode_check(PathNode_arrange(shadow[h]), req, path)

\* the HostNode reached from node along the labels, as a set: empty if a
\* label has no child
RECURSIVE NodeAt(_, _)
NodeAt(node, labels) ==
    IF labels = <<>> THEN {node}
    ELSE IF Head(labels) \in DOMAIN node.children
         THEN NodeAt(node.children[Head(labels)], Tail(labels))
         ELSE {}

(***************************************************************************)
(* C6. Host wildcard semantics: when the entries under suffix S are exact  *)
(* entries for S, wildcard entries "*.S" and exact entries of subdomains,  *)
(* a check for host S is decided by the exact entries of S alone, and a    *)
(* check for a subdomain of S with no exact entry of its own is decided by *)
(* the wildcard entries alone.                                             *)
(***************************************************************************)
C6_WildcardSemantics ==
    phase = "query" =>
        \A S \in PlainHosts :
            HostsOf(hins) \subseteq ({S, WildOf(S)} \cup SubOf(S)) =>
                \A req \in Reqs : \A path \in HostQueryPaths :
                    /\ HostNode_check(htree, req, S, path) = ShadowCheck(S, req, path)
                    /\ \A H \in SubOf(S) \ HostsOf(hins) :
                          HostNode_check(htree, req, H, path)
                              = ShadowCheck(WildOf(S), req, path)

\* "s" and "*.s" both hold an entry, a pair is granted for "s" and not for
\* "d.s", another for "d.s" and not for "s", and a check has granted
C6_Witness ==
    /\ phase = "query"
    /\ hres = "granted"
    /\ HostsOf(hins) = {<<115>>, WildOf(<<115>>)}
    /\ \E req \in Reqs : \E path \in HostQueryPaths :
          /\ HostNode_check(htree, req, <<115>>, path)
          /\ ~HostNode_check(htree, req, <<100, Dot, 115>>, path)
    /\ \E req \in Reqs : \E path \in HostQueryPaths :
          /\ ~HostNode_check(htree, req, <<115>>, path)
          /\ HostNode_check(htree, req, <<100, Dot, 115>>, path)

(***************************************************************************)
(* C7. Exact and wildcard grants add up: check grants a request iff the    *)
(* terminal path trie of the node reached by all the reversed labels of    *)
(* the host grants it, or the wildcard path trie of a node reached by      *)
(* fewer of the labels grants it against the full path.                    *)
(***************************************************************************)
C7_Additive ==
    phase = "query" =>
        \A req \in Reqs : \A host \in QueryHosts : \A path \in HostQueryPaths :
            LET parts == Parts(host) IN
            HostNode_check(htree, req, host, path) <=>
                \/ \E n \in NodeAt(htree, parts) : PathNode_check(n.terminal, req, path)
                \/ \E k \in 0..(Len(parts) - 1) : \E n \in NodeAt(htree, Upto(parts, k)) :
                      PathNode_check(n.wildcard, req, path)

\* "*.s" and "c.s" both hold an entry; a request for "c.s" is granted by the
\* exact entry and not by the wildcard, and one for "d.s", a label without
\* a child, is granted by the wildcard
C7_Witness ==
    /\ phase = "query"
    /\ hres = "granted"
    /\ HostsOf(hins) = {WildOf(<<115>>), <<99, Dot, 115>>}
    /\ \E req \in Reqs : \E path \in HostQueryPaths :
          /\ HostNode_check(htree, req, <<99, Dot, 115>>, path)
          /\ ~PathNode_check(htree.children[<<115>>].wildcard, req, path)
    /\ \E req \in Reqs : \E path \in HostQueryPaths :
          /\ HostNode_check(htree, req, <<100, Dot, 115>>, path)
          /\ PathNode_check(htree.children[<<115>>].wildcard, req, path)

(***************************************************************************)
(* C8. Insert idempotence: inserting once more a tuple that was inserted   *)
(* before, and then arranging, yields a trie that answers every check as   *)
(* the arranged trie without the second insert does.                       *)
(***************************************************************************)
C8_Idempotence ==
    phase = "build" =>
        \A e \in hins :
            \A req \in Reqs : \A host \in QueryHosts : \A path \in HostQueryPaths :
                HostNode_check(HostNode_arrange(HostNode_insert(htree, e[1], e[2], e[3])),
                               req, host, path)
                    = HostNode_check(HostNode_arrange(htree), req, host, path)

C10_FlagSeparates ==
    \A e \in pins :
        /\ \A req \in ReqType : Contains(Flag(e[1]), Flag(req)) <=> req = e[1]
        /\ phase = "query" =>
              \A req \in ReqType : \A path \in FlagPaths :
                  PathNode_check(ptree, req, path) => req = e[1]

\* one pair is in the trie, it is granted, and a check has denied
C10_Witness ==
    /\ phase = "query"
    /\ pcount = 1
    /\ pres = "denied"
    /\ \E e \in pins : PathNode_check(ptree, e[1], <<Slash>> \o e[2])

(***************************************************************************)
(* C11. Bitmask collision: when two pairs that differ in scheme and in     *)
(* category were both inserted at one path of the path trie, the arranged  *)
(* trie grants at that path the two crossed pairs, which were never        *)
(* inserted.                                                               *)
(***************************************************************************)
C11_Collision ==
    phase = "query" =>
        \A e1, e2 \in pins :
            (e1[2] = e2[2] /\ e1[1][1] # e2[1][1] /\ e1[1][2] # e2[1][2]) =>
                /\ PathNode_check(ptree, <<e1[1][1], e2[1][2]>>, <<Slash>> \o e1[2])
                /\ PathNode_check(ptree, <<e2[1][1], e1[1][2]>>, <<Slash>> \o e1[2])

(***************************************************************************)
(* C12. Non-empty edge labels: every edge of every path trie that inserts  *)
(* build has a label of at least one byte, whichever branch of insert_     *)
(* made or cut the edge.                                                   *)
(***************************************************************************)
C12_NonEmptyLabels ==
    \A node \in NodesOf(ptree) : \A k \in DOMAIN node.children :
        Len(node.children[k].prefix) > 0

\* the trie holds an internal node made by a split loop (no flags, the cut
\* old edge and the new edge) and an edge demoted under a shorter path (a
\* flagged node whose only child carries flags too)
C12_Witness ==
    /\ \E node \in NodesOf(ptree) : \E k \in DOMAIN node.children :
          /\ node.children[k].node.flags = EmptyFlags
          /\ Len(node.children[k].node.children) = 2
    /\ \E node \in NodesOf(ptree) :
          /\ node.flags # EmptyFlags
          /\ Len(node.children) = 1
          /\ node.children[1].node.flags # EmptyFlags

(***************************************************************************)
(* C13. Grants are monotone under insertion: whatever tuple is inserted    *)
(* next, every request the arranged host trie grants without that insert   *)
(* is granted by the arranged host trie with it.                           *)
(***************************************************************************)
C13_Monotone ==
    phase = "build" =>
        \A ireq \in InsReqs : \A ihost \in InsHosts : \A ipath \in HostPaths :
            \A req \in Reqs : \A host \in QueryHosts : \A path \in HostQueryPaths :
                HostNode_check(HostNode_arrange(htree), req, host, path) =>
                    HostNode_check(
                        HostNode_arrange(HostNode_insert(htree, ireq, ihost, ipath)),
                        req, host, path)

=============================================================================
